---- MODULE Spec2Model ----
(***************************************************************************)
(* MiniBERT (src/minibert.ipynb): the Layer classes, the graph_def         *)
(* memoising/scoping decorator and the graph a build leaves behind.        *)
(*                                                                         *)
(* A tensor is the index of a node of the TensorFlow default graph (0 is   *)
(* Python's None).  A node records the operation, its input tensors, its   *)
(* shape [batch, seq, features], the variable scope it was created under   *)
(* and the name= it was given.  A Layer object is a path of attribute      *)
(* names from the object the user constructed (<<>>), e.g.                 *)
(* <<"layers0", "mha_sublayer", "sublayer", "heads1", "to_q">>.            *)
(***************************************************************************)
EXTENDS Integers, Sequences, FiniteSets, TLC

VARIABLES
    built,      \* "none" | "ok" | "error": outcome of the constructor call
    cfg,        \* the constructor call: [cls, layers, d_model, heads, d_ff]
    heap,       \* Layer object -> its fields (name, outputs, attentions, ...)
    graph,      \* the default graph: sequence of nodes
    ncalls,     \* history: Layer object -> number of on() invocations
    ncompute,   \* history: Layer object -> number of runs of the undecorated on()
    trace,      \* history: every on() invocation, in order: [self, args]
    rets,       \* history: the values the user's on() calls on the root returned
    tferr,      \* history: some TensorFlow op was given incompatible shapes
    ln          \* the numeric LayerNormLayer of SpecLN: [x, outputs, mean, std, den]

vars == <<built, cfg, heap, graph, ncalls, ncompute, trace, rets, tferr, ln>>

----------------------------------------------------------------------------
(* Bounds of the model.                                                    *)
MaxLayers == 3
MaxDModel == 6
MaxHeads  == 3
MaxDff    == 2
MaxCalls  == 2
MaxInputs == 2
MaxLen    == 3
MaxVal    == 3

None == 0

Classes == {"LinearLayer", "DropoutLayer", "LayerNormLayer", "FeedForwardLayer",
            "ScaledDotProdAttentionLayer", "MultiHeadAttention",
            "EncoderSubLayerAttn", "EncoderSubLayerFfwd", "EncoderLayer", "BERTModel"}

----------------------------------------------------------------------------
(* "{}".format(i) for a non-negative int: its decimal digits.              *)
Digit(d) ==
    CASE d = 0 -> "0" [] d = 1 -> "1" [] d = 2 -> "2" [] d = 3 -> "3" [] d = 4 -> "4"
      [] d = 5 -> "5" [] d = 6 -> "6" [] d = 7 -> "7" [] d = 8 -> "8" [] d = 9 -> "9"

RECURSIVE Format(_)
Format(i) == IF i < 10 THEN Digit(i) ELSE Format(i \div 10) \o Digit(i % 10)

(* "layer{}".format(i), BERTModel.__init__ *)
LayerName(i) == "layer" \o Format(i)

HeadScopeShared(i) == "h"

(* "h{}".format(i), MultiHeadAttention.on *)
HeadScope(i) == "h" \o Format(i)

(* Attribute names of list elements: self.layers[i], self.heads[i] *)
LayersAt(i) == "layers" \o Format(i)
HeadsAt(i) == "heads" \o Format(i)

----------------------------------------------------------------------------
(* Construction.  A constructor yields [ok, objs]: ok = FALSE when it      *)
(* raised, objs the objects it created (object -> fields).                 *)

(* Layer.__init__: self.name = name, self.outputs = None.  The other       *)
(* fields are those the subclasses' __init__ set; 0 / <<>> where a class   *)
(* has none.                                                               *)
Layer_init(cls, name) ==
    [cls |-> cls, name |-> name, outputs |-> None,
     out_dim |-> 0, rate |-> None, h |-> 0, d_k |-> 0, d_model |-> 0, d_ff |-> 0,
     nlayers |-> 0, attentions |-> <<>>, A |-> None,
     mean |-> None, std |-> None, scores |-> None, dot |-> None]

Raised == [ok |-> FALSE, objs |-> <<>>]

Both(a, b) == IF a.ok /\ b.ok THEN [ok |-> TRUE, objs |-> a.objs @@ b.objs] ELSE Raised

Made(self, fields) == [ok |-> TRUE, objs |-> (self :> fields)]

LinearLayer_init(self, out_dim, name) ==
    Made(self, [Layer_init("LinearLayer", name) EXCEPT !.out_dim = out_dim])

DropoutLayer_init(self, dropout) ==
    Made(self, [Layer_init("DropoutLayer", "dropout") EXCEPT !.rate = dropout])

LayerNormLayer_init(self) ==
    Made(self, Layer_init("LayerNormLayer", "layernorm"))

FeedForwardLayer_init_narrow(self, dropout, d_model, d_ff) ==
    Both(Made(self, [Layer_init("FeedForwardLayer", "f_fwd") EXCEPT !.d_ff = d_ff]),
    Both(LinearLayer_init(self \o <<"linear1">>, d_ff, "ff_up"),
    Both(LinearLayer_init(self \o <<"linear2">>, d_ff, "ff_down"),
         DropoutLayer_init(self \o <<"dropout">>, dropout))))

FeedForwardLayer_init(self, dropout, d_model, d_ff) ==
    Both(Made(self, [Layer_init("FeedForwardLayer", "f_fwd") EXCEPT !.d_ff = d_ff]),
    Both(LinearLayer_init(self \o <<"linear1">>, d_ff, "ff_up"),
    Both(LinearLayer_init(self \o <<"linear2">>, d_model, "ff_down"),
         DropoutLayer_init(self \o <<"dropout">>, dropout))))

ScaledDotProdAttentionLayer_init(self, dropout, name) ==
    Both(Made(self, Layer_init("ScaledDotProdAttentionLayer", name)),
         DropoutLayer_init(self \o <<"dropout">>, dropout))

(* One pass of the loop `for i in range(h)`: Head(q, k, v, attn) *)
Head_init(self, i, d_k, dropout) ==
    LET hd == self \o <<HeadsAt(i)>> IN
    Both(LinearLayer_init(hd \o <<"to_q">>, d_k, "q"),
    Both(LinearLayer_init(hd \o <<"to_k">>, d_k, "k"),
    Both(LinearLayer_init(hd \o <<"to_v">>, d_k, "v"),
         ScaledDotProdAttentionLayer_init(hd \o <<"attn">>, dropout, "attn"))))

RECURSIVE Heads_init(_, _, _, _)
Heads_init(self, n, d_k, dropout) ==
    IF n = 0 THEN [ok |-> TRUE, objs |-> <<>>]
    ELSE Both(Heads_init(self, n - 1, d_k, dropout), Head_init(self, n - 1, d_k, dropout))

MultiHeadAttention_init_nosplit(self, dropout, d_model, h) ==
    IF h = 0 THEN Raised
    ELSE LET d_k == d_model IN
         Both(Made(self, [Layer_init("MultiHeadAttention", "multihead")
                            EXCEPT !.h = h, !.d_k = d_k, !.d_model = d_model]),
         Both(Heads_init(self, h, d_k, dropout),
              LinearLayer_init(self \o <<"out_layer">>, d_model, "O")))

(* d_model // h raises ZeroDivisionError for h = 0; nothing else is checked *)
MultiHeadAttention_init(self, dropout, d_model, h) ==
    IF h = 0 THEN Raised
    ELSE LET d_k == d_model \div h IN
         Both(Made(self, [Layer_init("MultiHeadAttention", "multihead")
                            EXCEPT !.h = h, !.d_k = d_k, !.d_model = d_model]),
         Both(Heads_init(self, h, d_k, dropout),
              LinearLayer_init(self \o <<"out_layer">>, d_model, "O")))

(* EncoderSubLayer.__init__(sublayer, dropout, d_model, name, *args):      *)
(* sublayer is the class MultiHeadAttention (args = heads) or              *)
(* FeedForwardLayer (args = d_ff).                                         *)
EncoderSubLayer_init(self, sublayer, dropout, d_model, name, arg) ==
    Both(Made(self, Layer_init("EncoderSubLayer", name)),
    Both(DropoutLayer_init(self \o <<"dropout">>, dropout),
    Both(IF sublayer = "MultiHeadAttention"
         THEN MultiHeadAttention_init(self \o <<"sublayer">>, dropout, d_model, arg)
         ELSE FeedForwardLayer_init(self \o <<"sublayer">>, dropout, d_model, arg),
         LayerNormLayer_init(self \o <<"layer_norm">>))))

EncoderLayer_init(self, dropout, d_model, heads, d_ff, name) ==
    Both(Made(self, Layer_init("EncoderLayer", name)),
    Both(EncoderSubLayer_init(self \o <<"mha_sublayer">>, "MultiHeadAttention",
                              dropout, d_model, "self_attn", heads),
         EncoderSubLayer_init(self \o <<"ffwd_sublayer">>, "FeedForwardLayer",
                              dropout, d_model, "feed_fwd", d_ff)))

RECURSIVE Layers_init(_, _, _, _, _, _)
Layers_init(self, n, dropout, d_model, heads, d_ff) ==
    IF n = 0 THEN [ok |-> TRUE, objs |-> <<>>]
    ELSE Both(Layers_init(self, n - 1, dropout, d_model, heads, d_ff),
              EncoderLayer_init(self \o <<LayersAt(n - 1)>>, dropout, d_model, heads,
                                d_ff, LayerName(n - 1)))

BERTModel_init(self, layers, dropout, d_model, heads, d_ff) ==
    Both(Made(self, [Layer_init("BERTModel", "BERT") EXCEPT !.nlayers = layers]),
         Layers_init(self, layers, dropout, d_model, heads, d_ff))

----------------------------------------------------------------------------
(* The TensorFlow operations the layers use, as far as the graph records   *)
(* them: each appends one node.  st is the state a build threads through   *)
(* the calls, [heap, graph, scope, ncalls, ncompute, trace, tferr]; a      *)
(* result r is [st, val]: the state after an evaluation and its value.     *)
(* An operation applied to a result takes its operand from r.val.          *)

Node(st, op, name, ins, shape, ok) ==
    [st  |-> [st EXCEPT !.graph = Append(@, [op |-> op, name |-> name, in |-> ins,
                                             shape |-> shape, scope |-> st.scope]),
                        !.tferr = @ \/ ~ok],
     val |-> Len(st.graph) + 1]

ShapeOf(st, t) == st.graph[t].shape

Last(s) == s[Len(s)]

WithLast(s, n) == [s EXCEPT ![Len(s)] = n]

(* Shapes of an elementwise binary op: equal, or 1 against n, per axis *)
Broadcastable(s1, s2) ==
    /\ Len(s1) = Len(s2)
    /\ \A i \in 1..Len(s1) : s1[i] = s2[i] \/ s1[i] = 1 \/ s2[i] = 1

RECURSIVE Broadcast(_, _)
Broadcast(s1, s2) ==
    IF s1 = <<>> \/ s2 = <<>> THEN s1
    ELSE <<IF Head(s1) = 1 THEN Head(s2) ELSE Head(s1)>> \o Broadcast(Tail(s1), Tail(s2))

(* a <op> b, elementwise *)
Binary(st, op, a, b) ==
    Node(st, op, op, <<a, b>>, Broadcast(ShapeOf(st, a), ShapeOf(st, b)),
         Broadcastable(ShapeOf(st, a), ShapeOf(st, b)))

(* X + <r>: the left operand was evaluated before the right one *)
Add(X, r) == Binary(r.st, "add", X, r.val)

(* tf.layers.dense(X, units, activation=None, name=name): the last axis    *)
(* becomes units; kernel and bias live under <scope>/<name>.               *)
tf_layers_dense(r, units, name) ==
    Node(r.st, "dense", name, <<r.val>>, WithLast(ShapeOf(r.st, r.val), units),
         Len(ShapeOf(r.st, r.val)) >= 2)

(* tf.nn.dropout(X, 1 - rate, name='dropped') *)
tf_nn_dropout(r, rate) ==
    Node(r.st, "dropout", "dropped", <<r.val, rate>>, ShapeOf(r.st, r.val), TRUE)

(* tf.nn.relu(X, name="relu") *)
tf_nn_relu(r) == Node(r.st, "relu", "relu", <<r.val>>, ShapeOf(r.st, r.val), TRUE)

(* tf.nn.softmax(self.scale * X, name='scores'): two nodes *)
Scaled(r) == Node(r.st, "mul_scale", "mul", <<r.val>>, ShapeOf(r.st, r.val), TRUE)

tf_nn_softmax(r) == Node(r.st, "softmax", "scores", <<r.val>>, ShapeOf(r.st, r.val), TRUE)

(* tf.nn.moments(X, axes=-1, keep_dims=True): the mean node m, then the    *)
(* variance node; returns the pair (mean, variance)                        *)
Pair(a, r) == [st |-> r.st, val |-> <<a, r.val>>]

MomentsOf(X, m) ==
    Pair(m.val, Node(m.st, "variance", "variance", <<X>>, WithLast(ShapeOf(m.st, X), 1), TRUE))

tf_nn_moments(st, X) ==
    MomentsOf(X, Node(st, "mean", "mean", <<X>>, WithLast(ShapeOf(st, X), 1), TRUE))

EinsumOk(a, b, i, j) == Len(a) = 3 /\ Len(b) = 3 /\ a[1] = b[1] /\ a[i] = b[j]

(* tf.einsum('mqd,mkd->mqk', Q, K, name='dot') *)
tf_einsum_dot(st, Q, K) ==
    Node(st, "einsum", "dot", <<Q, K>>,
         IF EinsumOk(ShapeOf(st, Q), ShapeOf(st, K), 3, 3)
         THEN <<ShapeOf(st, Q)[1], ShapeOf(st, Q)[2], ShapeOf(st, K)[2]>> ELSE <<>>,
         EinsumOk(ShapeOf(st, Q), ShapeOf(st, K), 3, 3))

(* tf.einsum('mqk,mkd->mqd', <r>, V, name='a') *)
tf_einsum_a(r, V) ==
    Node(r.st, "einsum", "a", <<r.val, V>>,
         IF EinsumOk(ShapeOf(r.st, r.val), ShapeOf(r.st, V), 3, 2)
         THEN <<ShapeOf(r.st, r.val)[1], ShapeOf(r.st, r.val)[2], ShapeOf(r.st, V)[3]>>
         ELSE <<>>,
         EinsumOk(ShapeOf(r.st, r.val), ShapeOf(r.st, V), 3, 2))

RECURSIVE SumLast(_, _)
SumLast(st, ts) ==
    IF ts = <<>> THEN 0 ELSE Last(ShapeOf(st, Head(ts))) + SumLast(st, Tail(ts))

ConcatOk(st, ts) ==
    /\ ts # <<>>
    /\ \A i \in DOMAIN ts :
          /\ Len(ShapeOf(st, ts[i])) = Len(ShapeOf(st, ts[1]))
          /\ \A a \in 1..(Len(ShapeOf(st, ts[1])) - 1) :
                ShapeOf(st, ts[i])[a] = ShapeOf(st, ts[1])[a]

(* tf.concat(values, axis=-1, name="A"): the last axes add up *)
tf_concat(st, ts) ==
    Node(st, "concat", "A", ts,
         IF ConcatOk(st, ts) THEN WithLast(ShapeOf(st, ts[1]), SumLast(st, ts)) ELSE <<>>,
         ConcatOk(st, ts))

----------------------------------------------------------------------------
(* The decorator.  A decorated method X.on, called in state r.st with the  *)
(* argument r.val, is                                                      *)
(*     X_on(self, r) == graph_def(self, args, r.st, res)                   *)
(* where res is what the undecorated method X_on_body yields when it runs  *)
(* in Enter(self, args, r): the call recorded and                          *)
(* tf.variable_scope(self.name) entered.                                   *)

Called(self, args, st) ==
    [st EXCEPT !.ncalls[self] = @ + 1,
               !.trace = Append(@, [self |-> self, args |-> args])]

Enter(self, args, r) ==
    [st  |-> [Called(self, args, r.st) EXCEPT !.scope = Append(@, r.st.heap[self].name),
                                              !.ncompute[self] = @ + 1],
     val |-> r.val]

Cached(self, st) == [st |-> st, val |-> st.heap[self].outputs]

graph_def_nocache(self, args, st, res) ==
    Cached(self, [res.st EXCEPT !.heap[self].outputs = res.val, !.scope = st.scope])

(* wrapper(self, *args, **kwargs): run f under variable_scope(self.name)   *)
(* and assign self.outputs only while self.outputs is None; return         *)
(* self.outputs                                                            *)
graph_def(self, args, st, res) ==
    IF st.heap[self].outputs = None
    THEN Cached(self, [res.st EXCEPT !.heap[self].outputs = res.val, !.scope = st.scope])
    ELSE Cached(self, Called(self, args, st))

Sub(self, attr) == self \o <<attr>>

(* self.<field> = <res> *)
SetField(self, field, res) ==
    [st |-> [res.st EXCEPT !.heap[self][field] = res.val], val |-> res.val]

----------------------------------------------------------------------------
(* The on() methods, leaves first.                                         *)

LinearLayer_on_body(self, r) ==
    tf_layers_dense(r, r.st.heap[self].out_dim, r.st.heap[self].name)

LinearLayer_on(self, r) ==
    graph_def(self, <<r.val>>, r.st, LinearLayer_on_body(self, Enter(self, <<r.val>>, r)))

DropoutLayer_on_body(self, r) == tf_nn_dropout(r, r.st.heap[self].rate)

DropoutLayer_on(self, r) ==
    graph_def(self, <<r.val>>, r.st, DropoutLayer_on_body(self, Enter(self, <<r.val>>, r)))

(* self.mean, self.std = <mo> *)
LayerNorm_assign(self, mo) ==
    [mo.st EXCEPT !.heap[self].mean = mo.val[1], !.heap[self].std = mo.val[2]]

(* <std> + self._eps *)
AddEps(st, std) == Node(st, "add_eps", "add", <<std>>, ShapeOf(st, std), TRUE)

(* <num> / <den>, the numerator evaluated first *)
Truediv(num, den) == Binary(den.st, "truediv", num, den.val)

(* <num> / (self.std + self._eps) *)
LayerNorm_quotient(self, num) ==
    Truediv(num.val, AddEps(num.st, num.st.heap[self].std))

(* (X - self.mean) / ... *)
LayerNorm_normalize(self, X, st) ==
    LayerNorm_quotient(self, Binary(st, "sub", X, st.heap[self].mean))

LayerNormLayer_on_body(self, r) ==
    LayerNorm_normalize(self, r.val, LayerNorm_assign(self, tf_nn_moments(r.st, r.val)))

LayerNormLayer_on(self, r) ==
    graph_def(self, <<r.val>>, r.st, LayerNormLayer_on_body(self, Enter(self, <<r.val>>, r)))

FeedForwardLayer_on_body_twice(self, r) ==
    LinearLayer_on(Sub(self, "linear1"),
        DropoutLayer_on(Sub(self, "dropout"),
            tf_nn_relu(LinearLayer_on(Sub(self, "linear1"), r))))

(* relu_d = relu(self.linear1.on(X)); self.linear2.on(self.dropout.on(relu_d)) *)
FeedForwardLayer_on_body(self, r) ==
    LinearLayer_on(Sub(self, "linear2"),
        DropoutLayer_on(Sub(self, "dropout"),
            tf_nn_relu(LinearLayer_on(Sub(self, "linear1"), r))))

FeedForwardLayer_on(self, r) ==
    graph_def(self, <<r.val>>, r.st, FeedForwardLayer_on_body(self, Enter(self, <<r.val>>, r)))

(* ScaledDotProdAttentionLayer.on(Q, K, V): r.val is <<Q, K, V>> *)
ScaledDotProdAttentionLayer_on_body(self, r) ==
    tf_einsum_a(
        DropoutLayer_on(Sub(self, "dropout"),
            SetField(self, "scores",
                tf_nn_softmax(Scaled(
                    SetField(self, "dot", tf_einsum_dot(r.st, r.val[1], r.val[2])))))),
        r.val[3])

ScaledDotProdAttentionLayer_on(self, r) ==
    graph_def(self, r.val, r.st, ScaledDotProdAttentionLayer_on_body(self, Enter(self, r.val, r)))

(* The loop body of MultiHeadAttention.on keeps its locals q, k, v, a in   *)
(* a frame [st, q, k, v, a].                                               *)
Keep(frame, local, res) == [frame EXCEPT !.st = res.st, ![local] = res.val]

With(st, X) == [st |-> st, val |-> X]

(* with tf.variable_scope("h{}".format(i)): *)
Head_scope(st, i) ==
    [st |-> [st EXCEPT !.scope = Append(@, HeadScope(i))],
     q |-> None, k |-> None, v |-> None, a |-> None]

(* q = h.to_q.on(X) *)
Head_q(self, X, i, f) ==
    Keep(f, "q", LinearLayer_on(Sub(Sub(self, HeadsAt(i)), "to_q"), With(f.st, X)))

(* k = h.to_k.on(X) *)
Head_k(self, X, i, f) ==
    Keep(f, "k", LinearLayer_on(Sub(Sub(self, HeadsAt(i)), "to_k"), With(f.st, X)))

(* v = h.to_v.on(X) *)
Head_v(self, X, i, f) ==
    Keep(f, "v", LinearLayer_on(Sub(Sub(self, HeadsAt(i)), "to_v"), With(f.st, X)))

(* a = h.attn.on(q, k, v) *)
Head_a(self, i, f) ==
    Keep(f, "a", ScaledDotProdAttentionLayer_on(Sub(Sub(self, HeadsAt(i)), "attn"),
                                                With(f.st, <<f.q, f.k, f.v>>)))

Head_append_front(self, scope, f) ==
    [f.st EXCEPT !.heap[self].attentions = <<f.a>> \o @, !.scope = scope]

(* self.attentions.append(a), and the end of the with block *)
Head_append(self, scope, f) ==
    [f.st EXCEPT !.heap[self].attentions = Append(@, f.a), !.scope = scope]

(* One pass of `for i, h in enumerate(self.heads)` *)
MultiHeadAttention_on_head(self, X, i, st) ==
    Head_append(self, st.scope,
        Head_a(self, i, Head_v(self, X, i, Head_k(self, X, i, Head_q(self, X, i,
            Head_scope(st, i))))))

(* The passes i, i+1, .. of the loop over self.heads *)
RECURSIVE MultiHeadAttention_on_heads(_, _, _, _)
MultiHeadAttention_on_heads(self, X, i, st) ==
    IF i >= st.heap[self].h THEN st
    ELSE MultiHeadAttention_on_heads(self, X, i + 1, MultiHeadAttention_on_head(self, X, i, st))

(* self.A = tf.concat(self.attentions, axis=-1, name="A") *)
MultiHeadAttention_concat(self, st) ==
    SetField(self, "A", tf_concat(st, st.heap[self].attentions))

MultiHeadAttention_on_body(self, r) ==
    LinearLayer_on(Sub(self, "out_layer"),
        MultiHeadAttention_concat(self, MultiHeadAttention_on_heads(self, r.val, 0, r.st)))

MultiHeadAttention_on(self, r) ==
    graph_def(self, <<r.val>>, r.st, MultiHeadAttention_on_body(self, Enter(self, <<r.val>>, r)))

(* self.sublayer.on: the class EncoderSubLayer.__init__ was given *)
sublayer_on(self, r) ==
    IF r.st.heap[self].cls = "MultiHeadAttention"
    THEN MultiHeadAttention_on(self, r)
    ELSE FeedForwardLayer_on(self, r)

EncoderSubLayer_on_body_postnorm(self, r) ==
    LayerNormLayer_on(Sub(self, "layer_norm"),
        Add(r.val, DropoutLayer_on(Sub(self, "dropout"),
                       sublayer_on(Sub(self, "sublayer"), r))))

(* X + self.dropout.on(self.sublayer.on(self.layer_norm.on(X))) *)
EncoderSubLayer_on_body(self, r) ==
    Add(r.val, DropoutLayer_on(Sub(self, "dropout"),
                   sublayer_on(Sub(self, "sublayer"),
                       LayerNormLayer_on(Sub(self, "layer_norm"), r))))

EncoderSubLayer_on(self, r) ==
    graph_def(self, <<r.val>>, r.st, EncoderSubLayer_on_body(self, Enter(self, <<r.val>>, r)))

EncoderLayer_on_body_swapped(self, r) ==
    EncoderSubLayer_on(Sub(self, "mha_sublayer"),
        EncoderSubLayer_on(Sub(self, "ffwd_sublayer"), r))

(* self.ffwd_sublayer.on(self.mha_sublayer.on(X)) *)
EncoderLayer_on_body(self, r) ==
    EncoderSubLayer_on(Sub(self, "ffwd_sublayer"),
        EncoderSubLayer_on(Sub(self, "mha_sublayer"), r))

EncoderLayer_on(self, r) ==
    graph_def(self, <<r.val>>, r.st, EncoderLayer_on_body(self, Enter(self, <<r.val>>, r)))

(* for layer in self.layers: X = layer.on(X) -- the passes i, i+1, ..;     *)
(* then return X                                                           *)
RECURSIVE BERTModel_on_layers(_, _, _)
BERTModel_on_layers(self, i, r) ==
    IF i >= r.st.heap[self].nlayers THEN r
    ELSE BERTModel_on_layers(self, i + 1, EncoderLayer_on(Sub(self, LayersAt(i)), r))

BERTModel_on_body(self, r) == BERTModel_on_layers(self, 0, r)

BERTModel_on(self, r) ==
    graph_def(self, <<r.val>>, r.st, BERTModel_on_body(self, Enter(self, <<r.val>>, r)))

(* Python dispatches obj.on to the method of the class of obj *)
on(self, r) ==
    CASE r.st.heap[self].cls = "LinearLayer"      -> LinearLayer_on(self, r)
      [] r.st.heap[self].cls = "DropoutLayer"     -> DropoutLayer_on(self, r)
      [] r.st.heap[self].cls = "LayerNormLayer"   -> LayerNormLayer_on(self, r)
      [] r.st.heap[self].cls = "FeedForwardLayer" -> FeedForwardLayer_on(self, r)
      [] r.st.heap[self].cls = "ScaledDotProdAttentionLayer" ->
             ScaledDotProdAttentionLayer_on(self, r)
      [] r.st.heap[self].cls = "MultiHeadAttention" -> MultiHeadAttention_on(self, r)
      [] r.st.heap[self].cls = "EncoderSubLayer"  -> EncoderSubLayer_on(self, r)
      [] r.st.heap[self].cls = "EncoderLayer"     -> EncoderLayer_on(self, r)
      [] r.st.heap[self].cls = "BERTModel"        -> BERTModel_on(self, r)

----------------------------------------------------------------------------
(* LayerNormLayer on concrete numbers: one feature vector x of integers,   *)
(* rationals as <<numerator, denominator>> with a positive denominator.    *)

EpsDen == 1000000

(* self._eps = 1e-6 *)
Eps == <<1, EpsDen>>

RECURSIVE SumSeq(_)
SumSeq(x) == IF x = <<>> THEN 0 ELSE Head(x) + SumSeq(Tail(x))

Squares(x) == [i \in DOMAIN x |-> x[i] * x[i]]

RatEq(a, b) == a[1] * b[2] = b[1] * a[2]

RatAdd(a, b) == <<a[1] * b[2] + b[1] * a[2], a[2] * b[2]>>

(* tf.nn.moments on one feature vector: the mean and the VARIANCE          *)
(* mean((x - mean(x))^2) = (n * sum(x^2) - sum(x)^2) / n^2                 *)
Moments(x) ==
    LET n == Len(x) IN
    << <<SumSeq(x), n>>, <<n * SumSeq(Squares(x)) - SumSeq(x) * SumSeq(x), n * n>> >>

(* LayerNormLayer.on without the decorator, on numbers: [mean, std, den,   *)
(* outputs] with outputs[i] = (x[i] - mean) / (std + eps)                  *)
LayerNormLayer_on_num(x) ==
    LET mo   == Moments(x)
        mean == mo[1]
        std  == mo[2]
        den  == RatAdd(std, Eps)
    IN  [mean |-> mean, std |-> std, den |-> den,
         outputs |-> [i \in DOMAIN x |->
                        <<(x[i] * mean[2] - mean[1]) * den[2], mean[2] * den[1]>>]]

Vectors == UNION {[1..n -> 0..MaxVal] : n \in 1..MaxLen}

----------------------------------------------------------------------------
(* The user's program: one constructor call, then on() calls on the object *)
(* it made (demo cell: reset the graph, make the placeholders, construct,  *)
(* build).                                                                 *)

(* The placeholders: X1..X<MaxInputs> of shape [batch, seq, d_model] and   *)
(* the scalar dropout rate d.                                              *)
Placeholders(d_model) ==
    [j \in 1..(MaxInputs + 1) |->
        IF j <= MaxInputs
        THEN [op |-> "placeholder", name |-> "X", in |-> <<>>,
              shape |-> <<j, MaxInputs + 1 - j, d_model>>, scope |-> <<>>]
        ELSE [op |-> "placeholder", name |-> "d", in |-> <<>>,
              shape |-> <<>>, scope |-> <<>>]]

Inputs == 1..MaxInputs
RateT == MaxInputs + 1

(* The constructor call of class cls with the arguments it takes *)
Root_init(cls, layers, dropout, d_model, heads, d_ff) ==
    CASE cls = "LinearLayer"      -> LinearLayer_init(<<>>, d_ff, "linear")
      [] cls = "DropoutLayer"     -> DropoutLayer_init(<<>>, dropout)
      [] cls = "LayerNormLayer"   -> LayerNormLayer_init(<<>>)
      [] cls = "FeedForwardLayer" -> FeedForwardLayer_init(<<>>, dropout, d_model, d_ff)
      [] cls = "ScaledDotProdAttentionLayer" ->
             ScaledDotProdAttentionLayer_init(<<>>, dropout, "attn")
      [] cls = "MultiHeadAttention" -> MultiHeadAttention_init(<<>>, dropout, d_model, heads)
      [] cls = "EncoderSubLayerAttn" ->
             EncoderSubLayer_init(<<>>, "MultiHeadAttention", dropout, d_model,
                                  "self_attn", heads)
      [] cls = "EncoderSubLayerFfwd" ->
             EncoderSubLayer_init(<<>>, "FeedForwardLayer", dropout, d_model,
                                  "feed_fwd", d_ff)
      [] cls = "EncoderLayer" ->
             EncoderLayer_init(<<>>, dropout, d_model, heads, d_ff, "layer0")
      [] cls = "BERTModel" -> BERTModel_init(<<>>, layers, dropout, d_model, heads, d_ff)

TakesLayers(cls) == cls = "BERTModel"
TakesHeads(cls) ==
    cls \in {"MultiHeadAttention", "EncoderSubLayerAttn", "EncoderLayer", "BERTModel"}
TakesDff(cls) ==
    cls \in {"LinearLayer", "FeedForwardLayer", "EncoderSubLayerFfwd", "EncoderLayer",
             "BERTModel"}

NoLn == [n |-> 0, x |-> <<>>, mean |-> <<>>, std |-> <<>>, den |-> <<>>, outputs |-> <<>>]

Init ==
    /\ built = "none"
    /\ cfg = [cls |-> "", layers |-> 0, d_model |-> 0, heads |-> 0, d_ff |-> 0]
    /\ heap = <<>>
    /\ graph = <<>>
    /\ ncalls = <<>>
    /\ ncompute = <<>>
    /\ trace = <<>>
    /\ rets = <<>>
    /\ tferr = FALSE
    /\ ln = NoLn

Construct(cls, layers, d_model, heads, d_ff) ==
    /\ built = "none"
    /\ heads <= d_model
    /\ layers = 0 \/ TakesLayers(cls)
    /\ heads = 0 \/ TakesHeads(cls)
    /\ IF TakesDff(cls) THEN d_ff >= 1 ELSE d_ff = 0
    /\ LET r == Root_init(cls, layers, RateT, d_model, heads, d_ff) IN
       /\ built' = IF r.ok THEN "ok" ELSE "error"
       /\ heap' = r.objs
       /\ ncalls' = [p \in DOMAIN r.objs |-> 0]
       /\ ncompute' = [p \in DOMAIN r.objs |-> 0]
    /\ cfg' = [cls |-> cls, layers |-> layers, d_model |-> d_model, heads |-> heads,
               d_ff |-> d_ff]
    /\ graph' = Placeholders(d_model)
    /\ UNCHANGED <<trace, rets, tferr, ln>>

St ==
    [heap |-> heap, graph |-> graph, scope |-> <<>>, ncalls |-> ncalls,
     ncompute |-> ncompute, trace |-> trace, tferr |-> tferr]

(* What the user passes: on(X, X, X) to an attention layer, else on(X) *)
ArgsFor(x) == IF cfg.cls = "ScaledDotProdAttentionLayer" THEN <<x, x, x>> ELSE x

(* The return value of on(...) called on the constructed object *)
Returned(x) == on(<<>>, With(St, ArgsFor(x)))

CallOn(x) ==
    /\ built = "ok"
    /\ Len(rets) < MaxCalls
    /\ heap' = Returned(x).st.heap
    /\ graph' = Returned(x).st.graph
    /\ ncalls' = Returned(x).st.ncalls
    /\ ncompute' = Returned(x).st.ncompute
    /\ trace' = Returned(x).st.trace
    /\ tferr' = Returned(x).st.tferr
    /\ rets' = Append(rets, Returned(x).val)
    /\ UNCHANGED <<built, cfg, ln>>

Next ==
    \/ \E cls \in Classes, layers \in 0..MaxLayers, d_model \in 1..MaxDModel,
          heads \in 0..MaxHeads, d_ff \in 0..MaxDff :
          Construct(cls, layers, d_model, heads, d_ff)
    \/ \E x \in Inputs : CallOn(x)

Spec == Init /\ [][Next]_vars

(* The decorated LayerNormLayer.on on a feature vector of numbers *)
LayerNorm_on(x) ==
    /\ ln.n < MaxCalls
    /\ ln' = IF ln.outputs = <<>>
             THEN LET r == LayerNormLayer_on_num(x) IN
                  [n |-> ln.n + 1, x |-> x, mean |-> r.mean, std |-> r.std,
                   den |-> r.den, outputs |-> r.outputs]
             ELSE [ln EXCEPT !.n = @ + 1]
    /\ UNCHANGED <<built, cfg, heap, graph, ncalls, ncompute, trace, rets, tferr>>

NextLN == \E x \in Vectors : LayerNorm_on(x)

SpecLN == Init /\ [][NextLN]_vars

----------------------------------------------------------------------------
(* Reading the state.                                                      *)

Root == <<>>

Objects == DOMAIN heap

OfClass(cls) == {p \in Objects : heap[p].cls = cls}

Computed(p) == heap[p].outputs # None

(* The position in the trace of the first on() call on p, and its arguments *)
Pos(p) == CHOOSE i \in DOMAIN trace :
              trace[i].self = p /\ \A j \in 1..(i - 1) : trace[j].self # p

ArgsOf(p) == trace[Pos(p)].args

(* The user's calls on the constructed object, in order *)
RootCalls == SelectSeq(trace, LAMBDA e : e.self = Root)

Shape(t) == graph[t].shape

(* Variable key of a dense node: enclosing scopes, then the layer name *)
Key(i) == graph[i].scope \o <<graph[i].name>>

DenseNodes == {i \in DOMAIN graph : graph[i].op = "dense"}

Divides(h, d) == h # 0 /\ d % h = 0

(* The constructor call made a MultiHeadAttention *)
MakesMultiHead ==
    /\ built # "none"
    /\ TakesHeads(cfg.cls)
    /\ cfg.cls = "BERTModel" => cfg.layers >= 1

(* No TensorFlow operation was given shapes it rejects *)
NoShapeError == ~tferr

----------------------------------------------------------------------------
(* C1: for every Layer object and every sequence of on() calls on it, the  *)
(* undecorated method ran only during the first call (never before it,     *)
(* once after it), outputs is None exactly until then and afterwards stays *)
(* the value the first call returned, which every later call returns too,  *)
(* whatever its arguments.                                                 *)
C1_ComputedOnceAndCached ==
    built = "ok" =>
        /\ \A p \in Objects :
              /\ ncompute[p] = IF ncalls[p] = 0 THEN 0 ELSE 1
              /\ Computed(p) <=> ncalls[p] >= 1
        /\ ncalls[Root] = Len(rets)
        /\ \A i \in DOMAIN rets : rets[i] = rets[1] /\ heap[Root].outputs = rets[1]

C1_Witness ==
    /\ built = "ok"
    /\ Len(rets) >= 2
    /\ RootCalls[1].args # RootCalls[2].args
    /\ rets[2] = rets[1]
    /\ ncompute[Root] = 1

(* C2: when h does not divide d_model, constructing a MultiHeadAttention   *)
(* (alone or inside an EncoderSubLayer, EncoderLayer or BERTModel) fails   *)
(* and leaves no object.                                                   *)
C2_IndivisibleFailsAtConstruction ==
    (MakesMultiHead /\ ~Divides(cfg.heads, cfg.d_model)) =>
        (built = "error" /\ Objects = {})

(* C3: an EncoderSubLayer's output is X + Dropout(sublayer(LayerNorm(X))): *)
(* the layer norm is applied to X itself, the sublayer to the layer norm's *)
(* output, the dropout to the sublayer's output, and the result is the sum *)
(* of the un-normalised X and the dropout's output, nothing after it.      *)
C3_PreNormResidual ==
    \A p \in OfClass("EncoderSubLayer") :
        Computed(p) =>
            LET X   == ArgsOf(p)[1]
                out == graph[heap[p].outputs]
                no  == Sub(p, "layer_norm")
                su  == Sub(p, "sublayer")
                dr  == Sub(p, "dropout")
            IN  /\ ArgsOf(no) = <<X>>
                /\ graph[heap[no].outputs].op = "truediv"
                /\ graph[graph[heap[no].outputs].in[1]].op = "sub"
                /\ graph[graph[heap[no].outputs].in[1]].in[1] = X
                /\ ArgsOf(su) = <<heap[no].outputs>>
                /\ ArgsOf(dr) = <<heap[su].outputs>>
                /\ graph[heap[dr].outputs].op = "dropout"
                /\ graph[heap[dr].outputs].in[1] = heap[su].outputs
                /\ out.op = "add"
                /\ out.in = <<X, heap[dr].outputs>>
                /\ ncalls[no] = 1

C3_Witness ==
    \E p \in OfClass("EncoderSubLayer") :
        /\ Computed(p)
        /\ graph[ArgsOf(p)[1]].op = "add"
        /\ heap[Sub(p, "sublayer")].cls = "MultiHeadAttention"

(* C4: LayerNormLayer divides by (standard deviation + eps): the value it  *)
(* keeps as self.std is the square root of the variance of x, and the      *)
(* divisor is that plus eps.                                               *)
C4_DividesByStdPlusEps ==
    ln.outputs # <<>> =>
        /\ RatEq(<<ln.std[1] * ln.std[1], ln.std[2] * ln.std[2]>>, Moments(ln.x)[2])
        /\ ln.den = RatAdd(ln.std, Eps)

(* C5: for d_model % h = 0 and an input [batch, seq, d_model], a           *)
(* MultiHeadAttention has exactly h heads, each head's attention output is *)
(* [batch, seq, d_model // h], the concatenation A has last axis d_model,  *)
(* and on(X) returns [batch, seq, d_model].                                *)
C5_MultiHeadShapes ==
    \A p \in OfClass("MultiHeadAttention") :
        (Computed(p) /\ Divides(heap[p].h, heap[p].d_model)
                     /\ Last(Shape(ArgsOf(p)[1])) = heap[p].d_model) =>
            LET sx == Shape(ArgsOf(p)[1])
                hs == {i \in 0..(MaxHeads + 1) : Sub(Sub(p, HeadsAt(i)), "attn") \in Objects}
            IN  /\ hs = 0..(heap[p].h - 1)
                /\ \A i \in hs :
                      Shape(heap[Sub(Sub(p, HeadsAt(i)), "attn")].outputs)
                          = <<sx[1], sx[2], heap[p].d_model \div heap[p].h>>
                /\ graph[heap[p].A].in = heap[p].attentions
                /\ Last(Shape(heap[p].A)) = heap[p].d_model
                /\ Shape(heap[p].A) = sx
                /\ Shape(heap[p].outputs) = sx

C5_Witness ==
    \E p \in OfClass("MultiHeadAttention") :
        /\ Computed(p)
        /\ heap[p].h >= 2
        /\ Divides(heap[p].h, heap[p].d_model)
        /\ Shape(ArgsOf(p)[1])[1] >= 2

(* C6: the BERTModel's build is shape-preserving for every layer count:    *)
(* the output of on(X) has the shape of X; with no layers the model holds  *)
(* no EncoderLayer and on(X) returns X itself.                             *)
C6_ShapePreserving ==
    (built = "ok" /\ cfg.cls = "BERTModel" /\ rets # <<>>) =>
        LET X == RootCalls[1].args[1] IN
        /\ Shape(rets[1]) = Shape(X)
        /\ Last(Shape(X)) = cfg.d_model
        /\ cfg.layers = 0 => (OfClass("EncoderLayer") = {} /\ rets[1] = X)
        /\ cfg.layers > 0 => rets[1] # X

C6_Witness ==
    /\ built = "ok" /\ cfg.cls = "BERTModel" /\ rets # <<>>
    /\ cfg.layers >= 2
    /\ Shape(rets[1])[1] >= 2

(* C7: a build runs the EncoderLayers in construction order, layer i on    *)
(* the output of layer i-1 (layer0 on X), and returns the last layer's     *)
(* output; inside an EncoderLayer the attention wrapper runs first, on the *)
(* layer's input, the feed-forward wrapper second, on the attention        *)
(* wrapper's output, and its output is the layer's.                        *)
C7_LayerOrder ==
    /\ (built = "ok" /\ cfg.cls = "BERTModel" /\ rets # <<>>) =>
          LET X == RootCalls[1].args[1]
              L(i) == Sub(Root, LayersAt(i))
          IN  /\ \A i \in 0..(cfg.layers - 1) :
                    /\ ArgsOf(L(i)) = <<IF i = 0 THEN X ELSE heap[L(i - 1)].outputs>>
                    /\ i > 0 => Pos(L(i - 1)) < Pos(L(i))
                    /\ i > 0 => heap[L(i - 1)].outputs < heap[L(i)].outputs
              /\ rets[1] = IF cfg.layers = 0 THEN X ELSE heap[L(cfg.layers - 1)].outputs
    /\ \A p \in OfClass("EncoderLayer") :
          Computed(p) =>
              /\ ArgsOf(Sub(p, "mha_sublayer")) = ArgsOf(p)
              /\ ArgsOf(Sub(p, "ffwd_sublayer")) = <<heap[Sub(p, "mha_sublayer")].outputs>>
              /\ Pos(Sub(p, "mha_sublayer")) < Pos(Sub(p, "ffwd_sublayer"))
              /\ heap[p].outputs = heap[Sub(p, "ffwd_sublayer")].outputs

C7_Witness ==
    /\ built = "ok" /\ cfg.cls = "BERTModel" /\ rets # <<>>
    /\ cfg.layers >= 2
    /\ Computed(Sub(Sub(Root, LayersAt(1)), "ffwd_sublayer"))

(* C8: within one built model no two LinearLayers request their weights    *)
(* under the same fully-qualified scope path.                              *)
C8_DistinctParameterKeys ==
    \A i, j \in DenseNodes : i # j => Key(i) # Key(j)

C8_Witness ==
    /\ built = "ok" /\ cfg.cls = "BERTModel" /\ rets # <<>>
    /\ cfg.layers >= 2 /\ cfg.heads >= 2
    /\ Cardinality(DenseNodes) = cfg.layers * (3 * cfg.heads + 3)

(* C9: during a build on a freshly constructed model on() is invoked       *)
(* exactly once on every Layer object below the one the user calls, and    *)
(* each of those calls computes: none is answered from the cache.          *)
C9_EachLayerCalledOnce ==
    (built = "ok" /\ rets # <<>>) =>
        /\ \A p \in Objects \ {Root} : ncalls[p] = 1 /\ ncompute[p] = 1
        /\ ncompute[Root] = 1
        /\ Cardinality({i \in DOMAIN trace : trace[i].self # Root}) = Cardinality(Objects) - 1

C9_Witness ==
    /\ built = "ok" /\ cfg.cls = "BERTModel" /\ Len(rets) = 1
    /\ cfg.layers >= 1 /\ cfg.heads >= 2
    /\ Cardinality(Objects) > 20

(* C10: a MultiHeadAttention's attentions list is empty while outputs is   *)
(* None and otherwise holds exactly h entries, entry i the attention       *)
(* output of head i; repeated on() calls append nothing, and A is the      *)
(* concatenation in that order.                                            *)
C10_AttentionsInHeadOrder ==
    \A p \in OfClass("MultiHeadAttention") :
        IF Computed(p)
        THEN /\ Len(heap[p].attentions) = heap[p].h
             /\ \A i \in 0..(heap[p].h - 1) :
                   heap[p].attentions[i + 1] = heap[Sub(Sub(p, HeadsAt(i)), "attn")].outputs
             /\ graph[heap[p].A].in = heap[p].attentions
        ELSE heap[p].attentions = <<>>

C10_Witness ==
    /\ built = "ok" /\ cfg.cls = "MultiHeadAttention"
    /\ Len(rets) >= 2
    /\ heap[Root].h >= 2
    /\ Len(heap[Root].attentions) = heap[Root].h

====
